---- MODULE Spec2Model ----
(***************************************************************************)
(* Model of src/system_info_server.py: the snapshot collectors, the        *)
(* aggregator, the netstat port lookup and the uptime formatter.           *)
(*                                                                         *)
(* Text is a sequence of one-character strings.  Floats that the program   *)
(* rounds to d decimals are integers counted in units of 10^-d, rounded    *)
(* half-to-even as Python's round() does.  An optional value is the empty  *)
(* sequence (None) or a one-element sequence.  A call either returns a     *)
(* value or raises an exception.                                           *)
(***************************************************************************)
EXTENDS Integers, Sequences, FiniteSets, TLC

VARIABLES pc, op, args, env, result

vars == <<pc, op, args, env, result>>

(* ---------------- bounds of the model ---------------- *)

\* most lines in one captured netstat output
MaxLines == 2
\* largest disk / memory reading, counted in ByteUnit bytes
MaxUnits == 18
\* largest elapsed time offset around a day/hour/minute boundary, in seconds
MaxSkew == 2

(* ---------------- values ---------------- *)

None == <<>>
Some(x) == <<x>>

Return(v) == [tag |-> "return", val |-> v, exc |-> "", msg |-> <<>>]
Raise(e, m) == [tag |-> "raise", val |-> <<>>, exc |-> e, msg |-> m]

NoCall == [tag |-> "none", val |-> <<>>, exc |-> "", msg |-> <<>>]

(* ---------------- text helpers (Python str / re / int) ---------------- *)

Whitespace == {" ", "\t", "\n", "\r"}
DigitChars == <<"0", "1", "2", "3", "4", "5", "6", "7", "8", "9">>
Digits == {DigitChars[i] : i \in 1..10}
UpperChars == <<"A", "B", "C", "D", "E", "F", "G", "H", "I", "J", "K", "L", "M", "N", "O", "P", "Q", "R", "S", "T", "U", "V", "W", "X", "Y", "Z">>
LowerChars == <<"a", "b", "c", "d", "e", "f", "g", "h", "i", "j", "k", "l", "m", "n", "o", "p", "q", "r", "s", "t", "u", "v", "w", "x", "y", "z">>

DigitVal(c) == (CHOOSE i \in 1..10 : DigitChars[i] = c) - 1

\* str.lower() on one character and on a text
LowerChar(c) ==
  IF \E i \in 1..26 : UpperChars[i] = c
  THEN LowerChars[CHOOSE i \in 1..26 : UpperChars[i] = c]
  ELSE c
lower(s) == [i \in 1..Len(s) |-> LowerChar(s[i])]

\* str(n) for an integer n, as the f-string renders it
RECURSIVE NatToStr(_)
NatToStr(n) ==
  IF n < 10 THEN <<DigitChars[n + 1]>>
  ELSE NatToStr(n \div 10) \o <<DigitChars[(n % 10) + 1]>>
IntToStr(n) == IF n < 0 THEN <<"-">> \o NatToStr(0 - n) ELSE NatToStr(n)

\* needle in s
Contains(s, needle) ==
  \E i \in 1..(Len(s) - Len(needle) + 1) :
    SubSeq(s, i, i + Len(needle) - 1) = needle

\* the k-th smallest element of a set of numbers
Nth(S, k) == CHOOSE e \in S : Cardinality({x \in S : x < e}) = k - 1

\* str.strip()
strip(s) ==
  LET keep == {i \in 1..Len(s) : s[i] \notin Whitespace} IN
    IF keep = {} THEN <<>>
    ELSE SubSeq(s, Nth(keep, 1), Nth(keep, Cardinality(keep)))

\* re.split(r"\s+", s): the pieces between maximal runs of whitespace
re_split_ws(s) ==
  LET starts == {i \in 1..Len(s) : s[i] \in Whitespace
                                   /\ (i = 1 \/ s[i - 1] \notin Whitespace)}
      ends == {i \in 1..Len(s) : s[i] \in Whitespace
                                 /\ (i = Len(s) \/ s[i + 1] \notin Whitespace)}
      n == Cardinality(starts)
  IN [k \in 1..(n + 1) |->
        SubSeq(s, IF k = 1 THEN 1 ELSE Nth(ends, k - 1) + 1,
                  IF k = n + 1 THEN Len(s) ELSE Nth(starts, k) - 1)]

\* str.splitlines(): breaks at \n, \r and \r\n; no empty last line
splitlines(s) ==
  LET ends == {i \in 1..Len(s) :
                 \/ s[i] = "\n"
                 \/ s[i] = "\r" /\ ~(i < Len(s) /\ s[i + 1] = "\n")}
      first(e) == IF s[e] = "\n" /\ e > 1 /\ s[e - 1] = "\r" THEN e - 1 ELSE e
      n == Cardinality(ends)
      last == IF n = 0 THEN 0 ELSE Nth(ends, n)
      whole == [k \in 1..n |->
                  SubSeq(s, IF k = 1 THEN 1 ELSE Nth(ends, k - 1) + 1,
                            first(Nth(ends, k)) - 1)]
  IN IF last < Len(s) THEN Append(whole, SubSeq(s, last + 1, Len(s)))
     ELSE whole

\* int(tok): optional sign, digits, single underscores between digits
IntBody(tok) ==
  IF tok # <<>> /\ Head(tok) \in {"+", "-"} THEN Tail(tok) ELSE tok
IsIntLiteral(tok) ==
  LET b == IntBody(tok) IN
    /\ b # <<>>
    /\ \A i \in 1..Len(b) : b[i] \in Digits \cup {"_"}
    /\ b[1] \in Digits
    /\ b[Len(b)] \in Digits
    /\ \A i \in 1..(Len(b) - 1) : ~(b[i] = "_" /\ b[i + 1] = "_")
RECURSIVE DigitsValue(_, _)
DigitsValue(b, acc) ==
  IF b = <<>> THEN acc
  ELSE IF Head(b) = "_" THEN DigitsValue(Tail(b), acc)
  ELSE DigitsValue(Tail(b), 10 * acc + DigitVal(Head(b)))
IntValue(tok) ==
  IF Head(tok) = "-" THEN 0 - DigitsValue(IntBody(tok), 0)
  ELSE DigitsValue(IntBody(tok), 0)

(* ---------------- netstat fixtures ---------------- *)

\* the fixture line of the spec's testable properties
LineSpecExample ==
  <<" ", " ", "T", "C", "P", " ", " ", " ", " ", "0", ".", "0", ".", "0", ".", "0", ":", "8", "0", "8", "0", " ", " ", " ", " ", "0", ".", "0", ".", "0", ".", "0", ":", "0", " ", " ", " ", " ", "L", "I", "S", "T", "E", "N", "I", "N", "G", " ", " ", " ", " ", "1", "2", "3", "4">>

\* a listening TCP socket on port 80
LineTcp80 ==
  <<" ", " ", "T", "C", "P", " ", " ", "h", ":", "8", "0", " ", " ", "g", ":", "0", " ", " ", "L", "I", "S", "T", "E", "N", "I", "N", "G", " ", " ", "7", "7">>

\* a UDP socket as netstat -ano prints it: four fields, no state
LineUdpFour ==
  <<" ", " ", "U", "D", "P", " ", " ", "h", ":", "8", "0", " ", " ", "*", ":", "*", " ", " ", "5", "1", "2">>

\* lower-case protocol, both ports, last field not a number
LineBadPid ==
  <<"t", "c", "p", " ", "h", ":", "8", "0", " ", "g", ":", "8", "0", "8", "0", " ", "E", "S", "T", "A", "B", "L", "I", "S", "H", "E", "D", " ", "x">>

\* five fields, protocol not tcp, signed pid
LineUdpFive ==
  <<"u", "d", "p", "6", " ", "[", ":", ":", "]", ":", "8", "0", "8", "0", " ", "*", ":", "*", " ", "0", " ", "+", "9">>

\* tab separated: the port is not followed by a space
LineTabs ==
  <<"T", "C", "P", "\t", "h", ":", "8", "0", "\t", "g", ":", "0", "\t", "L", "I", "S", "T", "E", "N", "I", "N", "G", "\t", "5">>

\* port 80 only in the foreign address, mixed whitespace, trailing blanks
LineForeign ==
  <<" ", "T", "c", "p", " ", " ", "h", ":", "5", "0", "0", "0", " ", "\t", " ", "g", ":", "8", "0", " ", "T", "I", "M", "E", "_", "W", "A", "I", "T", " ", " ", "1", "_", "0", " ", " ">>

\* the column header, no port at all
LineHeader ==
  <<"P", "r", "o", "t", "o", " ", "L", "o", "c", "a", "l", " ", "F", "o", "r", "e", "i", "g", "n", " ", "S", "t", "a", "t", "e", " ", "P", "I", "D">>

\* an empty line
LineBlank ==
  <<>>

\* the port ends the line, no space after it
LinePortLast ==
  <<"T", "C", "P", " ", "h", ":", "1", " ", "g", ":", "2", " ", "L", "I", "S", "T", "E", "N", "I", "N", "G", " ", "h", ":", "8", "0">>

\* contains the needle but has a single field
LineShort ==
  <<" ", ":", "8", "0", " ">>

NetstatLines ==
  {LineSpecExample, LineTcp80, LineUdpFour, LineBadPid, LineUdpFive, LineTabs,
   LineForeign, LineHeader, LineBlank, LinePortLast, LineShort}

\* messages of the exceptions subprocess.run can raise
MsgNoSuchFile ==
  <<"[", "E", "r", "r", "n", "o", " ", "2", "]", " ", "N", "o", " ", "s", "u", "c", "h", " ", "f", "i", "l", "e">>
LaunchErrors == {MsgNoSuchFile, <<>>}

\* the ports a client asks about
Ports == {80, 8080, 9999}

RECURSIVE JoinLines(_, _)
JoinLines(ls, final) ==
  IF ls = <<>> THEN <<>>
  ELSE IF Len(ls) = 1 THEN Head(ls) \o (IF final THEN <<"\n">> ELSE <<>>)
  ELSE Head(ls) \o <<"\n">> \o JoinLines(Tail(ls), final)

\* what subprocess.run(["netstat", "-ano"], ...) can do: raise, or capture text
CommandOutcomes ==
  {[ok |-> FALSE, text |-> m] : m \in LaunchErrors}
  \cup {[ok |-> TRUE, text |-> JoinLines(ls, final)] :
          ls \in UNION {[1..n -> NetstatLines] : n \in 0..MaxLines},
          final \in BOOLEAN}

(* ---------------- get_port_info_netstat ---------------- *)

StrNotFound == <<"N", "o", "t", " ", "f", "o", "u", "n", "d">>
StrErrorPrefix == <<"E", "r", "r", "o", "r", ":", " ">>
StrInvalidLiteral ==
  <<"i", "n", "v", "a", "l", "i", "d", " ", "l", "i", "t", "e", "r", "a", "l", " ", "f", "o", "r", " ", "i", "n", "t", "(", ")", " ", "w", "i", "t", "h", " ", "b", "a", "s", "e", " ", "1", "0", ":", " ">>
StrTcp == <<"t", "c", "p">>

Continue == [tag |-> "continue", val |-> <<>>, exc |-> "", msg |-> <<>>]

NetstatPortInfo(port, pid, protocol, local_address, foreign_address, state, raw_line) ==
  [port |-> port, pid |-> pid, protocol |-> protocol,
   local_address |-> local_address, foreign_address |-> foreign_address,
   state |-> state, raw_line |-> raw_line]

\* int(parts[-1])
ParsePid(tok) ==
  IF IsIntLiteral(tok) THEN Return(IntValue(tok))
  ELSE Raise("ValueError", StrInvalidLiteral \o <<"'">> \o tok \o <<"'">>)

\* variant: the protocol is compared as written, without lower()
StateOfCaseSensitive(parts) == IF parts[1] = StrTcp THEN parts[4] ELSE <<>>

\* the state column: parts[3] if proto.lower() == "tcp" else ""
StateOf(parts) == IF lower(parts[1]) = StrTcp THEN parts[4] ELSE <<>>

\* variant: no state at all, instead of the empty text, when not tcp
ParseLineStateAbsent(port, line) ==
  LET parts == re_split_ws(strip(line)) IN
    IF Len(parts) >= 5
    THEN LET pid == ParsePid(parts[Len(parts)]) IN
           IF pid.tag = "raise" THEN pid
           ELSE Return(NetstatPortInfo(port, Some(pid.val), Some(parts[1]),
                                       Some(parts[2]), Some(parts[3]),
                                       IF lower(parts[1]) = StrTcp
                                       THEN Some(parts[4]) ELSE None,
                                       strip(line)))
    ELSE Continue

\* the body of the loop for a line that contains the needle
ParseLine(port, line) ==
  LET parts == re_split_ws(strip(line)) IN
    IF Len(parts) >= 5
    THEN LET pid == ParsePid(parts[Len(parts)]) IN
           IF pid.tag = "raise" THEN pid
           ELSE Return(NetstatPortInfo(port, Some(pid.val), Some(parts[1]),
                                       Some(parts[2]), Some(parts[3]),
                                       Some(StateOf(parts)), strip(line)))
    ELSE Continue

\* f":{port} "
Needle(port) == <<":">> \o IntToStr(port) \o <<" ">>

\* variant: the scan gives up at the first line that contains the needle
RECURSIVE ScanLinesStopAtMatch(_, _)
ScanLinesStopAtMatch(port, lines) ==
  IF lines = <<>>
  THEN Return(NetstatPortInfo(port, None, None, None, None, None, StrNotFound))
  ELSE IF Contains(Head(lines), Needle(port))
       THEN LET r == ParseLine(port, Head(lines)) IN
              IF r.tag = "continue"
              THEN Return(NetstatPortInfo(port, None, None, None, None, None,
                                          StrNotFound))
              ELSE r
       ELSE ScanLinesStopAtMatch(port, Tail(lines))

\* the for loop over the lines and the return after it
RECURSIVE ScanLines(_, _)
ScanLines(port, lines) ==
  IF lines = <<>>
  THEN Return(NetstatPortInfo(port, None, None, None, None, None, StrNotFound))
  ELSE IF Contains(Head(lines), Needle(port))
       THEN LET r == ParseLine(port, Head(lines)) IN
              IF r.tag = "continue" THEN ScanLines(port, Tail(lines)) ELSE r
       ELSE ScanLines(port, Tail(lines))

\* subprocess.run(...).stdout
subprocess_run(cmd) ==
  IF cmd.ok THEN Return(cmd.text) ELSE Raise("OSError", cmd.text)

\* variant: no except clause
CatchNothing(port, r) == r

\* variant: except OSError, so that a ValueError passes through
CatchOnlyOSError(port, r) ==
  IF r.tag = "raise" /\ r.exc = "OSError"
  THEN Return(NetstatPortInfo(port, None, None, None, None, None,
                              StrErrorPrefix \o r.msg))
  ELSE r

\* except Exception as e: the error sentinel
CatchException(port, r) ==
  IF r.tag = "raise"
  THEN Return(NetstatPortInfo(port, None, None, None, None, None,
                              StrErrorPrefix \o r.msg))
  ELSE r

get_port_info_netstat(port, cmd) ==
  LET run == subprocess_run(cmd) IN
    CatchException(port,
      IF run.tag = "raise" THEN run
      ELSE ScanLines(port, splitlines(run.val)))

(* ---------------- numbers (Python float arithmetic and round) ---------------- *)

RECURSIVE GCD(_, _)
GCD(a, b) == IF b = 0 THEN a ELSE GCD(b, a % b)

\* num / den rounded to the nearest integer, ties to the even one
RoundHalfEven(num, den) ==
  LET q == num \div den
      r == num % den
  IN IF 2 * r < den THEN q
     ELSE IF 2 * r > den THEN q + 1
     ELSE IF q % 2 = 0 THEN q ELSE q + 1

\* round(num / den, d) counted in units of 10^-d, where scale = 10^d;
\* the fraction is reduced first so that the product stays a machine integer
RoundRatio(num, den, scale) ==
  LET g == GCD(num, den) IN RoundHalfEven(scale * (num \div g), den \div g)

BytesPerGB == 1024 * 1024 * 1024

\* bytes_to_gb: gigabytes with two decimals, counted in hundredths
bytes_to_gb(bytes_value) == RoundRatio(bytes_value, BytesPerGB, 100)

(* ---------------- provider readings ---------------- *)

\* Fractional readings are either off a rounding tie or binary fractions
\* (x.25, x.125, ...), for which the float the program rounds is the exact value.

\* readings are whole multiples of a sixteenth of a gigabyte
ByteUnit == BytesPerGB \div 16

ProviderErrors == {"OSError", "RuntimeError"}
ProviderFailures == {Raise(e, <<>>) : e \in ProviderErrors}

\* psutil.disk_usage('/')
DiskReadings ==
  {Return([total |-> t * ByteUnit, used |-> u * ByteUnit,
           free |-> (t - u) * ByteUnit]) : t \in 0..MaxUnits, u \in 0..MaxUnits}
DiskOutcomes ==
  {d \in DiskReadings : d.val.used <= d.val.total} \cup ProviderFailures

\* psutil.virtual_memory(); percent is counted in hundredths of a percent
MemoryOutcomes ==
  {Return([total |-> t * ByteUnit, available |-> (t - u) * ByteUnit,
           used |-> u * ByteUnit, free |-> (t - u) * ByteUnit,
           percent |-> p]) : t \in {8, 17}, u \in {0, 3, 8}, p \in {0, 1225, 3758}}
  \cup ProviderFailures

\* datetime.now(pytz.UTC) and pytz.timezone(...): epoch seconds
ClockOutcomes == {Return(1000000), Return(1086399)} \cup ProviderFailures

\* psutil.cpu_percent, in hundredths of a percent
CpuPercentOutcomes == {Return(0), Return(1275)} \cup ProviderFailures
\* psutil.cpu_count
CpuCountOutcomes == {Return(1), Return(8)} \cup ProviderFailures
\* psutil.cpu_freq: absent, or the current frequency in hundredths of a MHz
CpuFreqOutcomes == {Return(None), Return(Some(240025))} \cup ProviderFailures
\* psutil.getloadavg: three values in thousandths, or no load average here
LoadAvgOutcomes ==
  {Return(<<a, b, 0>>) : a \in {0, 1006}, b \in {375, 2125}}
  \cup {Raise("AttributeError", <<>>)} \cup ProviderFailures

CpuOutcomes ==
  [percent : CpuPercentOutcomes, count : CpuCountOutcomes,
   freq : CpuFreqOutcomes, loadavg : LoadAvgOutcomes]

\* platform.system(), platform(), machine(), processor(), python_version(), node()
PlatformReading ==
  [system |-> <<"L", "i", "n", "u", "x">>, platform |-> <<"L", "i", "n", "u", "x">>,
   machine |-> <<"x", "8", "6", "_", "6", "4">>, processor |-> <<>>,
   python_version |-> <<"3">>, hostname |-> <<"h", "o", "s", "t">>]

\* what one get_system_info call can meet: a sample of each provider's outcomes
SystemOutcomes ==
  [clock : {Return(1000000), Raise("OSError", <<>>)},
   vm : {Return([total |-> 16 * ByteUnit, available |-> 10 * ByteUnit,
                 used |-> 6 * ByteUnit, free |-> 10 * ByteUnit,
                 percent |-> 3758]),
         Raise("OSError", <<>>)},
   cpu : [percent : {Return(1250), Raise("RuntimeError", <<>>)},
          count : {Return(8)},
          freq : {Return(None)},
          loadavg : {Return(<<1006, 375, 0>>), Raise("AttributeError", <<>>),
                     Raise("RuntimeError", <<>>)}],
   du : {Return([total |-> 16 * ByteUnit, used |-> 5 * ByteUnit,
                 free |-> 11 * ByteUnit]),
         Return([total |-> 0, used |-> 0, free |-> 0]),
         Raise("OSError", <<>>)},
   platform : {PlatformReading}]

\* psutil.boot_time() and datetime.now().timestamp(), in whole seconds
MsgBootTime ==
  <<"b", "o", "o", "t", " ", "t", "i", "m", "e", " ", "u", "n", "a", "v", "a", "i", "l", "a", "b", "l", "e">>
UptimeMarks == {0, 60, 3600, 86400, 90061, 200000}
Now == 1000000
UptimeOutcomes ==
  {[now |-> Now, boot |-> Return(Now - (m + d))] :
     m \in UptimeMarks, d \in (0 - MaxSkew)..MaxSkew}
  \cup {[now |-> Now, boot |-> Raise("RuntimeError", MsgBootTime)]}

(* ---------------- the snapshot collectors ---------------- *)

StrTimezone ==
  <<"A", "s", "i", "a", "/", "K", "o", "l", "k", "a", "t", "a", " ", "(", "I", "S", "T", ")">>
StrDivisionByZero ==
  <<"d", "i", "v", "i", "s", "i", "o", "n", " ", "b", "y", " ", "z", "e", "r", "o">>

\* Asia/Kolkata is UTC+05:30
IstOffset == 19800

\* the two time strings are kept as the wall-clock second they render
get_current_time(clock) ==
  IF clock.tag = "raise" THEN clock
  ELSE Return([current_time_ist |-> clock.val + IstOffset,
               current_time_utc |-> clock.val,
               timezone |-> StrTimezone,
               timestamp |-> clock.val])

get_memory_usage(vm) ==
  IF vm.tag = "raise" THEN vm
  ELSE Return([total_gb |-> bytes_to_gb(vm.val.total),
               available_gb |-> bytes_to_gb(vm.val.available),
               used_gb |-> bytes_to_gb(vm.val.used),
               percentage_used |-> RoundHalfEven(vm.val.percent, 10),
               free_gb |-> bytes_to_gb(vm.val.free)])

\* variant: except AttributeError only
LoadAverageAttributeOnly(loadavg) ==
  IF loadavg.tag = "raise" /\ loadavg.exc = "AttributeError"
  THEN Return(<<0, 0, 0>>)
  ELSE loadavg

\* try: list(psutil.getloadavg()) except (AttributeError, OSError): zeros
LoadAverage(loadavg) ==
  IF loadavg.tag = "raise" /\ loadavg.exc \in {"AttributeError", "OSError"}
  THEN Return(<<0, 0, 0>>)
  ELSE loadavg

get_cpu_usage(cpu) ==
  IF cpu.percent.tag = "raise" THEN cpu.percent
  ELSE IF cpu.count.tag = "raise" THEN cpu.count
  ELSE IF cpu.freq.tag = "raise" THEN cpu.freq
  ELSE LET current_freq == IF cpu.freq.val # None THEN cpu.freq.val[1] ELSE 0
           load_avg == LoadAverage(cpu.loadavg)
       IN IF load_avg.tag = "raise" THEN load_avg
          ELSE Return([cpu_percent |-> RoundHalfEven(cpu.percent.val, 10),
                       cpu_count |-> cpu.count.val,
                       cpu_freq_current |-> RoundHalfEven(current_freq, 10),
                       load_average |->
                         [i \in 1..Len(load_avg.val) |->
                            RoundHalfEven(load_avg.val[i], 10)]])

\* variant: the percentage is taken from the rounded gigabyte values
DiskPercentageFromGb(used, total) ==
  IF total = 0 THEN Raise("ZeroDivisionError", StrDivisionByZero)
  ELSE Return(RoundRatio(bytes_to_gb(used), bytes_to_gb(total), 1000))

\* round((used / total) * 100, 1), in tenths of a percent
DiskPercentage(used, total) ==
  IF total = 0 THEN Raise("ZeroDivisionError", StrDivisionByZero)
  ELSE Return(RoundRatio(used, total, 1000))

get_disk_usage(du) ==
  IF du.tag = "raise" THEN du
  ELSE LET pct == DiskPercentage(du.val.used, du.val.total) IN
         IF pct.tag = "raise" THEN pct
         ELSE Return([total_gb |-> bytes_to_gb(du.val.total),
                      used_gb |-> bytes_to_gb(du.val.used),
                      free_gb |-> bytes_to_gb(du.val.free),
                      percentage_used |-> pct.val])

(* ---------------- get_system_info ---------------- *)

\* variant: a failing CPU collector is replaced by an empty CPU snapshot
get_system_info_masking(e) ==
  LET time_info == get_current_time(e.clock)
      memory_info == get_memory_usage(e.vm)
      cpu_info == get_cpu_usage(e.cpu)
      disk_info == get_disk_usage(e.du)
  IN IF time_info.tag = "raise" THEN time_info
     ELSE IF memory_info.tag = "raise" THEN memory_info
     ELSE IF disk_info.tag = "raise" THEN disk_info
     ELSE Return([time_info |-> time_info.val,
                  memory_info |-> memory_info.val,
                  cpu_info |-> IF cpu_info.tag = "raise"
                               THEN [cpu_percent |-> 0, cpu_count |-> 0,
                                     cpu_freq_current |-> 0,
                                     load_average |-> <<0, 0, 0>>]
                               ELSE cpu_info.val,
                  disk_info |-> disk_info.val,
                  platform_info |-> e.platform])

get_system_info(e) ==
  LET time_info == get_current_time(e.clock)
      memory_info == get_memory_usage(e.vm)
      cpu_info == get_cpu_usage(e.cpu)
      disk_info == get_disk_usage(e.du)
  IN IF time_info.tag = "raise" THEN time_info
     ELSE IF memory_info.tag = "raise" THEN memory_info
     ELSE IF cpu_info.tag = "raise" THEN cpu_info
     ELSE IF disk_info.tag = "raise" THEN disk_info
     ELSE Return([time_info |-> time_info.val,
                  memory_info |-> memory_info.val,
                  cpu_info |-> cpu_info.val,
                  disk_info |-> disk_info.val,
                  platform_info |-> e.platform])

(* ---------------- get_system_uptime ---------------- *)

StrSystemUptime ==
  <<"S", "y", "s", "t", "e", "m", " ", "u", "p", "t", "i", "m", "e", ":", " ">>
StrDays == <<" ", "d", "a", "y", "s", ",", " ">>
StrHours == <<" ", "h", "o", "u", "r", "s", ",", " ">>
StrMinutes == <<" ", "m", "i", "n", "u", "t", "e", "s">>
StrUnableUptime ==
  <<"U", "n", "a", "b", "l", "e", " ", "t", "o", " ", "g", "e", "t", " ", "u", "p", "t", "i", "m", "e", ":", " ">>

SecondsPerDay == 86400
SecondsPerHour == 3600
SecondsPerMinute == 60

UptimeDays(uptime_seconds) == uptime_seconds \div SecondsPerDay

\* variant: the hours are not reduced modulo a day
UptimeHoursTotal(uptime_seconds) == uptime_seconds \div SecondsPerHour

UptimeHours(uptime_seconds) ==
  (uptime_seconds % SecondsPerDay) \div SecondsPerHour
UptimeMinutes(uptime_seconds) ==
  (uptime_seconds % SecondsPerHour) \div SecondsPerMinute

FormatUptime(days, hours, minutes) ==
  StrSystemUptime \o IntToStr(days) \o StrDays \o IntToStr(hours) \o StrHours
    \o IntToStr(minutes) \o StrMinutes

get_system_uptime(t) ==
  IF t.boot.tag = "raise" THEN Return(StrUnableUptime \o t.boot.msg)
  ELSE LET uptime_seconds == t.now - t.boot.val IN
         Return(FormatUptime(UptimeDays(uptime_seconds),
                             UptimeHours(uptime_seconds),
                             UptimeMinutes(uptime_seconds)))

(* ---------------- the server ---------------- *)

Init ==
  /\ pc = "idle"
  /\ op = "none"
  /\ args = <<>>
  /\ env = <<>>
  /\ result = NoCall

\* Each request is one action: the handler runs to completion on what the
\* host gives it, and its outcome is kept until the reply is sent.

GetCurrentTime ==
  /\ pc = "idle"
  /\ \E clock \in ClockOutcomes :
       /\ op' = "get_current_time"
       /\ args' = <<>>
       /\ env' = clock
       /\ result' = get_current_time(clock)
  /\ pc' = "done"

GetMemoryUsage ==
  /\ pc = "idle"
  /\ \E vm \in MemoryOutcomes :
       /\ op' = "get_memory_usage"
       /\ args' = <<>>
       /\ env' = vm
       /\ result' = get_memory_usage(vm)
  /\ pc' = "done"

GetCpuUsage ==
  /\ pc = "idle"
  /\ \E cpu \in CpuOutcomes :
       /\ op' = "get_cpu_usage"
       /\ args' = <<>>
       /\ env' = cpu
       /\ result' = get_cpu_usage(cpu)
  /\ pc' = "done"

GetDiskUsage ==
  /\ pc = "idle"
  /\ \E du \in DiskOutcomes :
       /\ op' = "get_disk_usage"
       /\ args' = <<>>
       /\ env' = du
       /\ result' = get_disk_usage(du)
  /\ pc' = "done"

GetSystemInfo ==
  /\ pc = "idle"
  /\ \E e \in SystemOutcomes :
       /\ op' = "get_system_info"
       /\ args' = <<>>
       /\ env' = e
       /\ result' = get_system_info(e)
  /\ pc' = "done"

GetPortInfoNetstat ==
  /\ pc = "idle"
  /\ \E port \in Ports, cmd \in CommandOutcomes :
       /\ op' = "get_port_info_netstat"
       /\ args' = port
       /\ env' = cmd
       /\ result' = get_port_info_netstat(port, cmd)
  /\ pc' = "done"

GetSystemUptime ==
  /\ pc = "idle"
  /\ \E t \in UptimeOutcomes :
       /\ op' = "get_system_uptime"
       /\ args' = <<>>
       /\ env' = t
       /\ result' = get_system_uptime(t)
  /\ pc' = "done"

\* the response is sent and the server waits for the next request
Reply ==
  /\ pc = "done"
  /\ pc' = "idle"
  /\ op' = "none"
  /\ args' = <<>>
  /\ env' = <<>>
  /\ result' = NoCall

Next ==
  \/ GetCurrentTime
  \/ GetMemoryUsage
  \/ GetCpuUsage
  \/ GetDiskUsage
  \/ GetSystemInfo
  \/ GetPortInfoNetstat
  \/ GetSystemUptime
  \/ Reply

Spec == Init /\ [][Next]_vars

(* ---------------- properties: get_port_info_netstat ---------------- *)

PortDone == pc = "done" /\ op = "get_port_info_netstat"

StartsWith(s, prefix) ==
  Len(s) >= Len(prefix) /\ SubSeq(s, 1, Len(prefix)) = prefix

Smallest(S) == CHOOSE e \in S : \A x \in S : e <= x

AllPresent(rec) ==
  /\ rec.pid # None
  /\ rec.protocol # None
  /\ rec.local_address # None
  /\ rec.foreign_address # None
  /\ rec.state # None
AllAbsent(rec) ==
  /\ rec.pid = None
  /\ rec.protocol = None
  /\ rec.local_address = None
  /\ rec.foreign_address = None
  /\ rec.state = None

NotFoundShape(rec) == AllAbsent(rec) /\ rec.raw_line = StrNotFound
ErrorShape(rec) == AllAbsent(rec) /\ StartsWith(rec.raw_line, StrErrorPrefix)

\* the lines of the captured output, and the whitespace-separated fields of one
OutputLines == IF env.ok THEN splitlines(env.text) ELSE <<>>
FieldsOf(line) == re_split_ws(strip(line))
\* the lines that contain ":<port> ", and those of them with five fields or more
MatchingLines == {i \in 1..Len(OutputLines) : Contains(OutputLines[i], Needle(args))}
EligibleLines == {i \in MatchingLines : Len(FieldsOf(OutputLines[i])) >= 5}
LastField(line) == FieldsOf(line)[Len(FieldsOf(line))]
TcpSpellings == {<<a, b, c>> : a \in {"t", "T"}, b \in {"c", "C"}, c \in {"p", "P"}}

\* C1: get_port_info_netstat never raises: whatever the port and whatever the
\* command did, the call returns a record, and a launch failure, a last field
\* that is not an integer and a port that no line mentions are each reported
\* as a sentinel inside that record.
C1_NeverRaises ==
  PortDone =>
    /\ result.tag = "return"
    /\ result.val.port = args
    /\ ~env.ok => ErrorShape(result.val)
    /\ (EligibleLines # {}
        /\ ~IsIntLiteral(LastField(OutputLines[Smallest(EligibleLines)])))
       => ErrorShape(result.val)
    /\ (env.ok /\ MatchingLines = {}) => NotFoundShape(result.val)

\* the command could not be launched and the caller got the error sentinel
C1_Witness ==
  /\ PortDone
  /\ ~env.ok
  /\ result.tag = "return"
  /\ result.val.raw_line = StrErrorPrefix \o MsgNoSuchFile

\* the first line that contains ":<port> " has five fields or more and a
\* last field that is not an integer
BadPidOnFirstMatch ==
  /\ PortDone
  /\ MatchingLines # {}
  /\ Smallest(MatchingLines) \in EligibleLines
  /\ ~IsIntLiteral(LastField(OutputLines[Smallest(MatchingLines)]))

\* C2 as stated: when the first line containing ":<port> " has at least five
\* fields and a last field that is not an integer, the call fails with a parse
\* error that reaches the caller, and no sentinel record is returned.
C2_ParseErrorPropagates ==
  BadPidOnFirstMatch => result.tag = "raise"

\* C2 as amended: in that case the parse error is caught inside the call and
\* the caller gets the error sentinel: all five optional fields absent and a
\* raw_line of "Error: " followed by the parse error's message.
C2_ParseErrorIsSentinel ==
  BadPidOnFirstMatch =>
    /\ result.tag = "return"
    /\ AllAbsent(result.val)
    /\ result.val.raw_line =
         StrErrorPrefix \o StrInvalidLiteral \o <<"'">>
           \o LastField(OutputLines[Smallest(MatchingLines)]) \o <<"'">>

C2_Witness ==
  /\ BadPidOnFirstMatch
  /\ result.tag = "return"
  /\ StartsWith(result.val.raw_line, StrErrorPrefix)

\* C3: a returned record has exactly one of three shapes: Found (the five
\* optional fields all present, raw_line the matched line), NotFound (all five
\* absent, raw_line "Not found") or Error (all five absent, raw_line starting
\* with "Error: "); the five fields are never partly present and port is the
\* port asked for.
C3_ThreeShapes ==
  (PortDone /\ result.tag = "return") =>
    LET rec == result.val IN
      /\ rec.port = args
      /\ AllPresent(rec) \/ AllAbsent(rec)
      /\ AllPresent(rec) =>
           \E i \in MatchingLines : rec.raw_line = strip(OutputLines[i])
      /\ AllAbsent(rec) =>
           (rec.raw_line = StrNotFound) # StartsWith(rec.raw_line, StrErrorPrefix)

\* a record for a socket whose protocol is not tcp: the state is the empty text
C3_Witness ==
  /\ PortDone
  /\ result.tag = "return"
  /\ AllPresent(result.val)
  /\ result.val.state = Some(<<>>)

\* C4: a Found record for a line L takes protocol, local and foreign address
\* from fields 0, 1, 2 of L, the state from field 3 when the protocol is tcp in
\* any letter case and the empty text otherwise, the pid from the integer value
\* of the last field, and raw_line is L without its leading and trailing
\* whitespace; the spec's fixture line gives the spec's record.
C4_FoundFields ==
  (PortDone /\ result.tag = "return" /\ AllPresent(result.val)) =>
    /\ EligibleLines # {}
    /\ LET L == OutputLines[Smallest(EligibleLines)]
           f == FieldsOf(L)
           rec == result.val
       IN /\ rec.protocol = Some(f[1])
          /\ rec.local_address = Some(f[2])
          /\ rec.foreign_address = Some(f[3])
          /\ rec.state = Some(IF f[1] \in TcpSpellings THEN f[4] ELSE <<>>)
          /\ IsIntLiteral(f[Len(f)])
          /\ rec.pid = Some(IntValue(f[Len(f)]))
          /\ rec.raw_line = strip(L)
          /\ Head(rec.raw_line) \notin Whitespace
          /\ rec.raw_line[Len(rec.raw_line)] \notin Whitespace
    /\ (args = 8080 /\ OutputLines = <<LineSpecExample>>) =>
         /\ result.val.pid = Some(1234)
         /\ result.val.protocol = Some(<<"T", "C", "P">>)
         /\ result.val.state = Some(<<"L", "I", "S", "T", "E", "N", "I", "N", "G">>)
         /\ result.val.raw_line = SubSeq(LineSpecExample, 3, Len(LineSpecExample))

\* the spec's fixture line was looked up for port 8080
C4_Witness ==
  /\ PortDone
  /\ args = 8080
  /\ OutputLines = <<LineSpecExample>>
  /\ result.tag = "return"
  /\ result.val.pid = Some(1234)

\* C10 as stated: when some line contains ":<port> " the result is a Found
\* record built from the earliest such line, and "Not found" is returned only
\* when no line contains ":<port> ".
C10_FirstMatchDecides ==
  (PortDone /\ env.ok) =>
    /\ MatchingLines # {} =>
         /\ result.tag = "return"
         /\ AllPresent(result.val)
         /\ result.val.raw_line = strip(OutputLines[Smallest(MatchingLines)])
    /\ (result.tag = "return" /\ NotFoundShape(result.val)) => MatchingLines = {}

\* C10 as amended: lines that contain ":<port> " but have fewer than five
\* fields are passed over; the earliest line that contains ":<port> " and has
\* five fields or more decides: a Found record built from it when its last
\* field is an integer, the error sentinel when it is not; no other line is
\* consulted, and "Not found" is returned exactly when no line contains
\* ":<port> " with five fields or more.
C10_FirstEligibleDecides ==
  (PortDone /\ env.ok) =>
    /\ result.tag = "return"
    /\ EligibleLines # {} =>
         LET L == OutputLines[Smallest(EligibleLines)] IN
           /\ result = get_port_info_netstat(args, [ok |-> TRUE, text |-> L])
           /\ IF IsIntLiteral(LastField(L))
              THEN AllPresent(result.val) /\ result.val.raw_line = strip(L)
              ELSE ErrorShape(result.val)
    /\ NotFoundShape(result.val) <=> EligibleLines = {}

\* a line with the port and too few fields came first and a later line decided
C10_Witness ==
  /\ PortDone
  /\ env.ok
  /\ MatchingLines # {}
  /\ EligibleLines # {}
  /\ Smallest(MatchingLines) < Smallest(EligibleLines)
  /\ result.tag = "return"
  /\ AllPresent(result.val)

(* ---------------- properties: collectors, aggregator, uptime ---------------- *)

Done(name) == pc = "done" /\ op = name

\* C5: get_system_info returns no partial result: when any of the four
\* collectors fails the call fails with that collector's error, and it returns
\* a snapshot, made of the four collectors' results, only when all four
\* returned one.
C5_NoPartialResult ==
  Done("get_system_info") =>
    LET parts == <<get_current_time(env.clock), get_memory_usage(env.vm),
                   get_cpu_usage(env.cpu), get_disk_usage(env.du)>>
        failed == {i \in 1..4 : parts[i].tag = "raise"}
    IN /\ failed # {} => (result.tag = "raise" /\ result = parts[Smallest(failed)])
       /\ failed = {} =>
            /\ result.tag = "return"
            /\ result.val.time_info = parts[1].val
            /\ result.val.memory_info = parts[2].val
            /\ result.val.cpu_info = parts[3].val
            /\ result.val.disk_info = parts[4].val

\* only the CPU collector failed, and the whole call failed
C5_Witness ==
  /\ Done("get_system_info")
  /\ get_current_time(env.clock).tag = "return"
  /\ get_memory_usage(env.vm).tag = "return"
  /\ get_cpu_usage(env.cpu).tag = "raise"
  /\ get_disk_usage(env.du).tag = "return"
  /\ result.tag = "raise"

DiskReturned ==
  /\ Done("get_disk_usage")
  /\ result.tag = "return"
  /\ result.val.total_gb > 0

\* C6 as stated: for a reading whose total_gb is above zero, percentage_used
\* equals round(used_gb / total_gb * 100, 1) taken from the record's own
\* two-decimal gigabyte values.
C6_PercentageFromGb ==
  DiskReturned =>
    result.val.percentage_used
      = RoundRatio(result.val.used_gb, result.val.total_gb, 1000)

\* C6 as amended: for a reading whose total_gb is above zero, percentage_used
\* is round(used / total * 100, 1) taken from the raw byte counts of the
\* reading: the tenth of a percent nearest to used / total * 100, the even
\* tenth on a tie.
C6_PercentageFromBytes ==
  DiskReturned =>
    LET p == result.val.percentage_used
        u == env.val.used \div ByteUnit
        t == env.val.total \div ByteUnit
        d == IF p * t >= 1000 * u THEN p * t - 1000 * u ELSE 1000 * u - p * t
    IN /\ 2 * d <= t
       /\ 2 * d = t => p % 2 = 0

\* a reading where the two ways of taking the percentage differ
C6_Witness ==
  /\ DiskReturned
  /\ result.val.percentage_used
       # RoundRatio(result.val.used_gb, result.val.total_gb, 1000)

\* every provider query of the collector gave a value; for the CPU a missing
\* frequency and a missing load average count as values
QueriesReturned ==
  \/ /\ op \in {"get_current_time", "get_memory_usage", "get_disk_usage"}
     /\ env.tag = "return"
  \/ /\ op = "get_cpu_usage"
     /\ env.percent.tag = "return"
     /\ env.count.tag = "return"
     /\ env.freq.tag = "return"
     /\ \/ env.loadavg.tag = "return"
        \/ env.loadavg.exc \in {"AttributeError", "OSError"}

\* C7: a snapshot collector has no error path of its own: when every provider
\* query it makes returns a value, it returns its snapshot.
C7_NoOwnErrorPath ==
  (pc = "done" /\ QueriesReturned) => result.tag = "return"

\* the text of a well-formed uptime sentence
UptimeSentence(d, h, m) ==
  <<"S", "y", "s", "t", "e", "m", " ", "u", "p", "t", "i", "m", "e", ":", " ">>
    \o IntToStr(d) \o <<" ", "d", "a", "y", "s", ",", " ">>
    \o IntToStr(h) \o <<" ", "h", "o", "u", "r", "s", ",", " ">>
    \o IntToStr(m) \o <<" ", "m", "i", "n", "u", "t", "e", "s">>

Elapsed == env.now - env.boot.val

\* the days, hours and minutes in the returned sentence are within their
\* ranges and account for the elapsed time up to less than a minute
UptimeDecomposed ==
  \E d \in 0..(Elapsed \div SecondsPerDay + 1), h \in 0..23, m \in 0..59 :
    /\ result.val = UptimeSentence(d, h, m)
    /\ Elapsed - (d * 86400 + h * 3600 + m * 60) \in 0..59

\* C8 as stated: days, hours and minutes come from floor division, so that for
\* every elapsed >= 0 hours is in 0..23, minutes in 0..59 and less than a
\* minute is unaccounted for; for elapsed = 90061 the returned string is
\* "1 days, 1 hours, 1 minutes"; a provider failure gives a string, not an error.
C8_UptimeAsStated ==
  Done("get_system_uptime") =>
    /\ result.tag = "return"
    /\ (env.boot.tag = "return" /\ Elapsed >= 0) => UptimeDecomposed
    /\ (env.boot.tag = "return" /\ Elapsed = 90061) =>
         result.val = <<"1", " ", "d", "a", "y", "s", ",", " ", "1", " ", "h", "o", "u", "r", "s", ",", " ", "1", " ", "m", "i", "n", "u", "t", "e", "s">>
    /\ env.boot.tag = "raise" => StartsWith(result.val, StrUnableUptime)

\* C8 as amended: the same, except that for elapsed = 90061 the returned
\* string is "System uptime: 1 days, 1 hours, 1 minutes".
C8_UptimeWithPrefix ==
  Done("get_system_uptime") =>
    /\ result.tag = "return"
    /\ (env.boot.tag = "return" /\ Elapsed >= 0) => UptimeDecomposed
    /\ (env.boot.tag = "return" /\ Elapsed = 90061) =>
         result.val = <<"S", "y", "s", "t", "e", "m", " ", "u", "p", "t", "i", "m", "e", ":", " ", "1", " ", "d", "a", "y", "s", ",", " ", "1", " ", "h", "o", "u", "r", "s", ",", " ", "1", " ", "m", "i", "n", "u", "t", "e", "s">>
    /\ env.boot.tag = "raise" => StartsWith(result.val, StrUnableUptime)

\* the host booted 90061 seconds ago
C8_Witness ==
  /\ Done("get_system_uptime")
  /\ env.boot.tag = "return"
  /\ Elapsed = 90061
  /\ result.tag = "return"

\* the CPU queries that have no substitute
CpuHardQueries == <<env.percent, env.count, env.freq>>

\* C9: a returned CPU snapshot has a load average of exactly three numbers;
\* when the provider has no load average the call does not fail and the load
\* average is three zeros; a failure of the percent, count or frequency query
\* reaches the caller.
C9_LoadAverage ==
  Done("get_cpu_usage") =>
    LET failed == {i \in 1..3 : CpuHardQueries[i].tag = "raise"} IN
      /\ result.tag = "return" => Len(result.val.load_average) = 3
      /\ (failed = {} /\ env.loadavg.tag = "raise"
          /\ env.loadavg.exc \in {"AttributeError", "OSError"})
         => (result.tag = "return" /\ result.val.load_average = <<0, 0, 0>>)
      /\ failed # {} =>
           (result.tag = "raise" /\ result = CpuHardQueries[Smallest(failed)])

\* the host has no load average and the snapshot carries the three zeros
C9_Witness ==
  /\ Done("get_cpu_usage")
  /\ env.loadavg.tag = "raise"
  /\ env.loadavg.exc = "AttributeError"
  /\ result.tag = "return"
  /\ result.val.load_average = <<0, 0, 0>>

====
